---- MODULE Spec2Model ----
(***************************************************************************)
(* Ground-truth normalisation for COCO 2017 val: the detection, instance   *)
(* segmentation and panoptic builders.                                     *)
(*                                                                         *)
(*   src/detection/build_detection_gt.py                                   *)
(*   src/segmentation/build_instance_gt.py                                 *)
(*   src/panoptic/build_panoptic_gt.py                                     *)
(*                                                                         *)
(* Arrays are records [h, w, px] with px a function on (0..h-1) X (0..w-1) *)
(* (row, column), 0-based as in numpy.  Bounding-box coordinates are       *)
(* binary fractions: an integer v stands for the float v / Scale, so that  *)
(* every value and every sum the code forms is an exact float.             *)
(***************************************************************************)
EXTENDS Integers, Naturals, Sequences, FiniteSets, TLC

VARIABLES
    coco,              \* the pycocotools container: cats, imgs, anns
    panoptic_data,     \* the panoptic JSON: categories, images, annotations
    masks_dir,         \* panoptic_masks_dir: file name -> decoded RGB array
    catid_to_classid,  \* the category mapping main() builds once
    img_id_to_img,     \* panoptic index: image id -> image record
    img_id_to_ann,     \* panoptic index: image id -> annotation record
    pc,                \* where main() stands
    call,              \* the call being made: function and arguments
    ret,               \* what the call returned or raised
    workers            \* the per-image calls running side by side

vars == <<coco, panoptic_data, masks_dir, catid_to_classid, img_id_to_img,
          img_id_to_ann, pc, call, ret, workers>>

-----------------------------------------------------------------------------
(* Bounds of the model *)

MaxCats == 3        \* longest category list
MaxDim == 2         \* largest image height and width of the bbox inputs
ChanEdge == 1       \* channel values 0..ChanEdge and 255-ChanEdge..255
MaxAnns == 2        \* most annotations of one image
MaxSegs == 2        \* most segments of one panoptic annotation
MaxWorkers == 2     \* per-image calls running side by side

(* Program constants *)

Scale == 8          \* coordinates are multiples of 1/Scale

-----------------------------------------------------------------------------
(* Plain helpers *)

Min(a, b) == IF a < b THEN a ELSE b
Max(a, b) == IF a > b THEN a ELSE b
EmptyMap == [k \in {} |-> 0]
NoCall == [fn |-> "none"]
NoRet == [exc |-> "none", val |-> <<>>]

SeqsUpTo(S, n) == UNION {[1..k -> S] : k \in 0..n}

-----------------------------------------------------------------------------
(* build_category_id_mapping *)

\* sorted(cats, key=lambda c: c["id"]): stable, ascending by id.
RECURSIVE InsertById(_, _)
InsertById(c, s) ==
    IF s = <<>> THEN <<c>>
    ELSE IF c["id"] < Head(s)["id"] THEN <<c>> \o s
    ELSE <<Head(s)>> \o InsertById(c, Tail(s))

\* The list left in the order the container gives it.
SortedById_unsorted(cats) == cats

RECURSIVE SortedById(_)
SortedById(cats) ==
    IF cats = <<>> THEN <<>>
    ELSE InsertById(Head(cats), SortedById(Tail(cats)))

\* {cat["id"]: idx for idx, cat in enumerate(cats_sorted)}: a later entry of
\* the same key replaces the earlier one.
EnumerateToDict(cats_sorted) ==
    [k \in {cats_sorted[i]["id"] : i \in DOMAIN cats_sorted} |->
        (CHOOSE i \in DOMAIN cats_sorted :
            /\ cats_sorted[i]["id"] = k
            /\ \A j \in DOMAIN cats_sorted :
                  cats_sorted[j]["id"] = k => j <= i) - 1]

\* coco.getCatIds() with no filter: the ids of the container's categories.
getCatIds(c) == [i \in DOMAIN c.cats |-> c.cats[i]["id"]]

\* coco.loadCats(ids): the category stored under each id (the index keeps
\* the last category of an id).
loadCats(c, ids) ==
    [i \in DOMAIN ids |->
        c.cats[CHOOSE j \in DOMAIN c.cats :
                  /\ c.cats[j]["id"] = ids[i]
                  /\ \A k \in DOMAIN c.cats : c.cats[k]["id"] = ids[i] => k <= j]]

\* detection/build_detection_gt.py
build_category_id_mapping_detection(c) ==
    LET cat_ids == getCatIds(c)
        cats == loadCats(c, cat_ids)
        cats_sorted == SortedById(cats)
    IN  EnumerateToDict(cats_sorted)

\* segmentation/build_instance_gt.py
build_category_id_mapping_instance(c) ==
    LET cat_ids == getCatIds(c)
        cats == loadCats(c, cat_ids)
        cats_sorted == SortedById(cats)
    IN  EnumerateToDict(cats_sorted)

\* panoptic/build_panoptic_gt.py
build_category_id_mapping_panoptic(pd) ==
    LET cats == SortedById(pd.categories)
    IN  EnumerateToDict(cats)

-----------------------------------------------------------------------------
(* The category mapping, built by each of the three variants *)

CatIds == {1, 5, 18, 90}
CatLists == SeqsUpTo([id : CatIds], MaxCats)

NoCoco == [cats |-> <<>>, imgs |-> EmptyMap, anns |-> EmptyMap]
NoPanoptic == [categories |-> <<>>, images |-> <<>>, annotations |-> <<>>]

InitMap ==
    /\ \E C \in CatLists :
          /\ coco = [NoCoco EXCEPT !.cats = C]
          /\ panoptic_data = [NoPanoptic EXCEPT !.categories = C]
    /\ masks_dir = EmptyMap
    /\ catid_to_classid = EmptyMap
    /\ img_id_to_img = EmptyMap
    /\ img_id_to_ann = EmptyMap
    /\ pc = "start"
    /\ call = NoCall
    /\ ret = NoRet
    /\ workers = <<>>

\* build_category_id_mapping(coco) of the detection builder is called.
CallBuildMappingDetection ==
    /\ call' = [fn |-> "build_category_id_mapping", variant |-> "detection"]
    /\ ret' = [exc |-> "none", val |-> build_category_id_mapping_detection(coco)]
    /\ UNCHANGED <<coco, panoptic_data, masks_dir, catid_to_classid,
                   img_id_to_img, img_id_to_ann, pc, workers>>

\* build_category_id_mapping(coco) of the instance builder is called.
CallBuildMappingInstance ==
    /\ call' = [fn |-> "build_category_id_mapping", variant |-> "instance"]
    /\ ret' = [exc |-> "none", val |-> build_category_id_mapping_instance(coco)]
    /\ UNCHANGED <<coco, panoptic_data, masks_dir, catid_to_classid,
                   img_id_to_img, img_id_to_ann, pc, workers>>

\* build_category_id_mapping(panoptic_data) of the panoptic builder is called.
CallBuildMappingPanoptic ==
    /\ call' = [fn |-> "build_category_id_mapping", variant |-> "panoptic"]
    /\ ret' = [exc |-> "none",
               val |-> build_category_id_mapping_panoptic(panoptic_data)]
    /\ UNCHANGED <<coco, panoptic_data, masks_dir, catid_to_classid,
                   img_id_to_img, img_id_to_ann, pc, workers>>

\* main(): catid_to_classid = build_category_id_mapping(...)
MainKeepMapping ==
    /\ pc = "start"
    /\ call.fn = "build_category_id_mapping"
    /\ catid_to_classid' = ret.val
    /\ pc' = "mapped"
    /\ UNCHANGED <<coco, panoptic_data, masks_dir, img_id_to_img,
                   img_id_to_ann, call, ret, workers>>

NextMap ==
    \/ CallBuildMappingDetection
    \/ CallBuildMappingInstance
    \/ CallBuildMappingPanoptic
    \/ MainKeepMapping

SpecMap == InitMap /\ [][NextMap]_vars

-----------------------------------------------------------------------------
(* C1 *)

IdsOf(C) == {C[i]["id"] : i \in DOMAIN C}
DistinctIds(C) == \A i, j \in DOMAIN C : C[i]["id"] = C[j]["id"] => i = j
Orderings(n) == {p \in [1..n -> 1..n] : \A i, j \in 1..n : p[i] = p[j] => i = j}
Reordered(C, p) == [i \in DOMAIN C |-> C[p[i]]]

\* C1: for a category list with pairwise distinct ids, the mapping a variant
\* returns has exactly the ids as keys, sends each id to the number of ids
\* strictly smaller than it, is a bijection onto 0..len-1, is the same for
\* every reordering of the list and every variant, and a rebuild returns the
\* mapping main() kept from the first build.
C1_MappingIsRankBijection ==
    (call.fn = "build_category_id_mapping" /\ DistinctIds(coco.cats)) =>
        LET C == coco.cats
            m == ret.val
        IN  /\ ret.exc = "none"
            /\ DOMAIN m = IdsOf(C)
            /\ \A k \in IdsOf(C) : m[k] = Cardinality({j \in IdsOf(C) : j < k})
            /\ {m[k] : k \in IdsOf(C)} = 0..(Len(C) - 1)
            /\ \A k1, k2 \in IdsOf(C) : m[k1] = m[k2] => k1 = k2
            /\ \A p \in Orderings(Len(C)) :
                  /\ build_category_id_mapping_detection(
                        [coco EXCEPT !.cats = Reordered(C, p)]) = m
                  /\ build_category_id_mapping_instance(
                        [coco EXCEPT !.cats = Reordered(C, p)]) = m
                  /\ build_category_id_mapping_panoptic(
                        [panoptic_data EXCEPT !.categories = Reordered(C, p)]) = m
            /\ pc = "mapped" => m = catid_to_classid

\* A rebuild by the panoptic variant from three distinct ids listed out of
\* order, after main() kept a first mapping.
C1_Witness ==
    /\ call.fn = "build_category_id_mapping"
    /\ call.variant = "panoptic"
    /\ pc = "mapped"
    /\ Len(coco.cats) = 3
    /\ DistinctIds(coco.cats)
    /\ coco.cats[1]["id"] > coco.cats[2]["id"]
    /\ ret.val = catid_to_classid

-----------------------------------------------------------------------------
(* bbox_to_mask *)

\* round(v): Python 3 rounds a float to the nearest integer, a tie to the
\* even one.  v is in units of 1/Scale; \div floors and % is non-negative.
Round(v) ==
    LET q == v \div Scale
        r == v % Scale
    IN  IF 2 * r < Scale THEN q
        ELSE IF 2 * r > Scale THEN q + 1
        ELSE IF q % 2 = 0 THEN q ELSE q + 1

\* x0 = int(round(x)); y0 = int(round(y))
near_edge(a) == Round(a)

far_edge_sum_of_rounds(a, d) == Round(a) + Round(d)

\* x1 = int(round(x + w)); y1 = int(round(y + h))
far_edge(a, d) == Round(a + d)

clip_upper_only(v, hi) == Min(v, hi)

\* max(0, min(v, hi))
clip(v, hi) == Max(0, Min(v, hi))

\* np.zeros((height, width), dtype=np.uint8)
zeros(height, width) ==
    [h |-> height, w |-> width,
     px |-> [p \in (0..(height - 1)) \X (0..(width - 1)) |-> 0]]

\* The start or stop of a slice over an axis of length n, as numpy takes it:
\* a negative index counts from the end, and both ends are cut to 0..n.
slice_index(i, n) == IF i < 0 THEN Max(i + n, 0) ELSE Min(i, n)

\* mask[y0:y1, x0:x1] = 1
slice_assign(mask, y0, y1, x0, x1, v) ==
    LET r0 == slice_index(y0, mask.h)
        r1 == slice_index(y1, mask.h)
        c0 == slice_index(x0, mask.w)
        c1 == slice_index(x1, mask.w)
    IN  [mask EXCEPT !.px =
            [p \in DOMAIN mask.px |->
                IF r0 <= p[1] /\ p[1] < r1 /\ c0 <= p[2] /\ p[2] < c1
                THEN v ELSE mask.px[p]]]

bbox_to_mask(bbox, height, width) ==
    LET x == bbox[1]
        y == bbox[2]
        w == bbox[3]
        h == bbox[4]
        mask == zeros(height, width)
        x0 == clip(near_edge(x), width)
        x1 == clip(far_edge(x, w), width)
        y0 == clip(near_edge(y), height)
        y1 == clip(far_edge(y, h), height)
    IN  slice_assign(mask, y0, y1, x0, x1, 1)

\* The inputs: x and w with fractional parts 0, 3/8, 1/2 and 5/8, y and h with
\* fractional parts 0, 1/2 and 5/8, on whole parts from -1 to the largest
\* image side; and the scenario box on the 8x8 image.
FracsX == {0, 3, 4, 5}
FracsY == {0, 4, 5}
CoordsX == {n * Scale + f : n \in (-1)..MaxDim, f \in FracsX}
CoordsY == {n * Scale + f : n \in (-1)..MaxDim, f \in FracsY}
ScenarioBBox == <<-5 * Scale, 2 * Scale, 10 * Scale, 3 * Scale>>
ScenarioSize == <<8, 8>>
BBoxes == (CoordsX \X CoordsY \X CoordsX \X CoordsY) \cup {ScenarioBBox}
Sizes == ((0..MaxDim) \X (0..MaxDim)) \cup {ScenarioSize}

InitBbox ==
    /\ coco = NoCoco
    /\ panoptic_data = NoPanoptic
    /\ masks_dir = EmptyMap
    /\ catid_to_classid = EmptyMap
    /\ img_id_to_img = EmptyMap
    /\ img_id_to_ann = EmptyMap
    /\ pc = "call"
    /\ \E bbox \in BBoxes, size \in Sizes :
          call = [fn |-> "bbox_to_mask", bbox |-> bbox,
                  height |-> size[1], width |-> size[2]]
    /\ ret = NoRet
    /\ workers = <<>>

\* bbox_to_mask(bbox, height, width) runs and returns its mask.
RunBboxToMask ==
    /\ pc = "call"
    /\ call.fn = "bbox_to_mask"
    /\ ret' = [exc |-> "none",
               val |-> bbox_to_mask(call.bbox, call.height, call.width)]
    /\ pc' = "done"
    /\ UNCHANGED <<coco, panoptic_data, masks_dir, catid_to_classid,
                   img_id_to_img, img_id_to_ann, call, workers>>

NextBbox == RunBboxToMask

SpecBbox == InitBbox /\ [][NextBbox]_vars

-----------------------------------------------------------------------------
(* C2, C3 *)

Abs(n) == IF n < 0 THEN -n ELSE n

\* The integer nearest to v / Scale, the even one of the two on a tie.
Nearest(v) ==
    CHOOSE n \in ((v \div Scale) - 1)..((v \div Scale) + 1) :
        \A m \in ((v \div Scale) - 1)..((v \div Scale) + 1) :
            \/ Abs(v - n * Scale) < Abs(v - m * Scale)
            \/ /\ Abs(v - n * Scale) = Abs(v - m * Scale)
               /\ (n = m \/ n % 2 = 0)

Clipped(n, hi) == IF n < 0 THEN 0 ELSE IF n > hi THEN hi ELSE n

Ones(mask) == {p \in DOMAIN mask.px : mask.px[p] = 1}

\* C2: the mask has the image's shape and is 1 exactly on the pixels (r, c)
\* with x0 <= c < x1 and y0 <= r < y1, the four bounds being the rounded
\* corners, each clipped on its own to the image, and 0 elsewhere; an empty
\* clipped rectangle gives an all-zero mask and no error; the box
\* (-5, 2, 10, 3) on an 8x8 image sets the 15 pixels of rows 2..4, columns 0..4.
C2_MaskIsClippedRectangle ==
    (call.fn = "bbox_to_mask" /\ pc = "done") =>
        LET x0 == Clipped(Nearest(call.bbox[1]), call.width)
            x1 == Clipped(Nearest(call.bbox[1] + call.bbox[3]), call.width)
            y0 == Clipped(Nearest(call.bbox[2]), call.height)
            y1 == Clipped(Nearest(call.bbox[2] + call.bbox[4]), call.height)
            mask == ret.val
        IN  /\ ret.exc = "none"
            /\ mask.h = call.height
            /\ mask.w = call.width
            /\ DOMAIN mask.px = (0..(call.height - 1)) \X (0..(call.width - 1))
            /\ \A p \in DOMAIN mask.px :
                  mask.px[p] = IF x0 <= p[2] /\ p[2] < x1 /\ y0 <= p[1] /\ p[1] < y1
                               THEN 1 ELSE 0
            /\ (x1 <= x0 \/ y1 <= y0) => Ones(mask) = {}
            /\ (call.bbox = ScenarioBBox /\ call.height = 8 /\ call.width = 8) =>
                  /\ Ones(mask) = (2..4) \X (0..4)
                  /\ Cardinality(Ones(mask)) = 15

\* The scenario box, cut at the left edge of the 8x8 image.
C2_Witness ==
    /\ call.fn = "bbox_to_mask"
    /\ pc = "done"
    /\ call.bbox = ScenarioBBox
    /\ call.height = 8
    /\ call.width = 8
    /\ Cardinality(Ones(ret.val)) = 15

FullyInside(bbox, height, width) ==
    /\ bbox[1] >= 0
    /\ bbox[2] >= 0
    /\ bbox[3] >= 0
    /\ bbox[4] >= 0
    /\ bbox[1] + bbox[3] <= width * Scale
    /\ bbox[2] + bbox[4] <= height * Scale

OnTie(v) == 2 * (v % Scale) = Scale
IsWhole(v) == v % Scale = 0

NoTie(bbox) ==
    /\ ~OnTie(bbox[1])
    /\ ~OnTie(bbox[2])
    /\ ~OnTie(bbox[3])
    /\ ~OnTie(bbox[4])
    /\ ~OnTie(bbox[1] + bbox[3])
    /\ ~OnTie(bbox[2] + bbox[4])

\* C3 as stated: a box fully inside the image with no value on a rounding
\* tie sets round(w) * round(h) pixels.
C3_CountIsRoundedArea ==
    (/\ call.fn = "bbox_to_mask"
     /\ pc = "done"
     /\ FullyInside(call.bbox, call.height, call.width)
     /\ NoTie(call.bbox)) =>
        Cardinality(Ones(ret.val)) = Nearest(call.bbox[3]) * Nearest(call.bbox[4])

\* C3 as amended: a box fully inside the image sets
\* (round(x+w) - round(x)) * (round(y+h) - round(y)) pixels; that is
\* round(w) * round(h) when x and y are whole numbers and no value is on a tie.
C3_CountIsCornerDifference ==
    (/\ call.fn = "bbox_to_mask"
     /\ pc = "done"
     /\ FullyInside(call.bbox, call.height, call.width)) =>
        /\ Cardinality(Ones(ret.val)) =
              (Nearest(call.bbox[1] + call.bbox[3]) - Nearest(call.bbox[1]))
            * (Nearest(call.bbox[2] + call.bbox[4]) - Nearest(call.bbox[2]))
        /\ (IsWhole(call.bbox[1]) /\ IsWhole(call.bbox[2]) /\ NoTie(call.bbox)) =>
              Cardinality(Ones(ret.val)) =
                  Nearest(call.bbox[3]) * Nearest(call.bbox[4])

\* x = 0.375, w = 1.375 inside a width-2 image: two columns are set, round(w) = 1.
C3_Witness ==
    /\ call.fn = "bbox_to_mask"
    /\ pc = "done"
    /\ FullyInside(call.bbox, call.height, call.width)
    /\ NoTie(call.bbox)
    /\ call.bbox[1] = 3
    /\ call.bbox[3] = 11
    /\ Nearest(call.bbox[4]) = 1
    /\ Cardinality(Ones(ret.val)) = 2

-----------------------------------------------------------------------------
(* rgb_to_id *)

\* An element kept in 16 bits.
astype_uint16(v) == v % 65536

\* An element of an np.int64 array.  The values formed here stay below 2^24,
\* far inside the 64 bits (and inside the model checker's own integers), so
\* no value wraps.
astype_int64(v) == v

\* color = color.astype(np.int64)
\* color[:, :, 0] + 256 * color[:, :, 1] + (256**2) * color[:, :, 2]
\* Every product and sum is an element of an array of the converted type.
rgb_to_id(color) ==
    [h |-> color.h, w |-> color.w,
     px |-> [p \in DOMAIN color.px |->
        LET r == astype_int64(color.px[p][1])
            g == astype_int64(color.px[p][2])
            b == astype_int64(color.px[p][3])
        IN  astype_int64(astype_int64(r + astype_int64(256 * g))
                         + astype_int64((256 * 256) * b))]]

ChanVals == (0..ChanEdge) \cup ((255 - ChanEdge)..255)
Triplets == ChanVals \X ChanVals \X ChanVals
RgbShapes == {<<1, 1>>, <<1, 2>>, <<2, 1>>}
ArraysOf(shape, V) ==
    {[h |-> shape[1], w |-> shape[2], px |-> f] :
        f \in [(0..(shape[1] - 1)) \X (0..(shape[2] - 1)) -> V]}

InitRgb ==
    /\ coco = NoCoco
    /\ panoptic_data = NoPanoptic
    /\ masks_dir = EmptyMap
    /\ catid_to_classid = EmptyMap
    /\ img_id_to_img = EmptyMap
    /\ img_id_to_ann = EmptyMap
    /\ pc = "call"
    /\ \E shape \in RgbShapes :
          \E color \in ArraysOf(shape, Triplets) :
              call = [fn |-> "rgb_to_id", color |-> color]
    /\ ret = NoRet
    /\ workers = <<>>

\* rgb_to_id(color) runs and returns the id map.
RunRgbToId ==
    /\ pc = "call"
    /\ call.fn = "rgb_to_id"
    /\ ret' = [exc |-> "none", val |-> rgb_to_id(call.color)]
    /\ pc' = "done"
    /\ UNCHANGED <<coco, panoptic_data, masks_dir, catid_to_classid,
                   img_id_to_img, img_id_to_ann, call, workers>>

NextRgb == RunRgbToId

SpecRgb == InitRgb /\ [][NextRgb]_vars

-----------------------------------------------------------------------------
(* C4 *)

\* The triplet of an id: the inverse of id = R + 256 G + 65536 B.
EncodeId(i) == <<i % 256, (i \div 256) % 256, i \div 65536>>

\* C4: the id map has the image's height and width, its entry at each pixel is
\* R + 256 G + 65536 B with no wrap-around, inside 0..256^3-1; two pixels get
\* the same id only if their triplets are equal, and the triplet of each id
\* is recovered from the id.
C4_DecodeIsExactAndInjective ==
    (call.fn = "rgb_to_id" /\ pc = "done") =>
        LET color == call.color
            ids == ret.val
        IN  /\ ret.exc = "none"
            /\ ids.h = color.h
            /\ ids.w = color.w
            /\ DOMAIN ids.px = DOMAIN color.px
            /\ \A p \in DOMAIN color.px :
                  /\ ids.px[p] = color.px[p][1] + 256 * color.px[p][2]
                                 + 65536 * color.px[p][3]
                  /\ ids.px[p] \in 0..(256 * 256 * 256 - 1)
                  /\ EncodeId(ids.px[p]) = color.px[p]
            /\ \A p, q \in DOMAIN color.px :
                  ids.px[p] = ids.px[q] => color.px[p] = color.px[q]

\* Two pixels whose ids need more than 16 bits and differ in the blue channel
\* only; one of them is the largest id, 256^3 - 1.
C4_Witness ==
    /\ call.fn = "rgb_to_id"
    /\ pc = "done"
    /\ \E p, q \in DOMAIN call.color.px :
          /\ call.color.px[p] = <<255, 255, 255>>
          /\ call.color.px[q] = <<255, 255, 254>>
          /\ ret.val.px[p] = 16777215
          /\ ret.val.px[q] = 16777215 - 65536

-----------------------------------------------------------------------------
(* get_detection_gt_for_image, get_instance_gt_for_image *)

Raise(e) == [exc |-> e, val |-> <<>>]
Return(v) == [exc |-> "none", val |-> v]

\* coco.getAnnIds(imgIds=[image_id], iscrowd=None): the ids of the image's
\* annotations, in the container's order.
getAnnIds(c, image_id) ==
    LET own == SelectSeq(c.anns, LAMBDA a : a.image_id = image_id)
    IN  [i \in DOMAIN own |-> own[i].id]

\* coco.loadAnns(ids): the annotation stored under each id.
loadAnns(c, ids) ==
    [i \in DOMAIN ids |->
        c.anns[CHOOSE j \in DOMAIN c.anns :
                  /\ c.anns[j].id = ids[i]
                  /\ \A k \in DOMAIN c.anns : c.anns[k].id = ids[i] => k <= j]]

\* coco.annToMask(ann): the decoded polygon/RLE mask of the annotation.
annToMask(c, ann) == ann.segmentation

\* The body of the detection loop for one annotation: the list after it, or
\* the KeyError of the mapping lookup.
detection_body(ann, height, width, mapping, detections) ==
    LET coco_cat_id == ann.category_id
    IN  IF coco_cat_id \notin DOMAIN mapping THEN Raise("KeyError")
        ELSE LET class_id == mapping[coco_cat_id]
                 mask == bbox_to_mask(ann.bbox, height, width)
             IN  Return(Append(detections,
                               [class_id |-> class_id, mask |-> mask]))

RECURSIVE detection_loop(_, _, _, _, _, _)
detection_loop(anns, i, height, width, mapping, detections) ==
    IF i > Len(anns) THEN Return(detections)
    ELSE LET r == detection_body(anns[i], height, width, mapping, detections)
         IN  IF r.exc # "none" THEN r
             ELSE detection_loop(anns, i + 1, height, width, mapping, r.val)

get_detection_gt_for_image(c, image_id, mapping) ==
    IF image_id \notin DOMAIN c.imgs THEN Raise("KeyError")
    ELSE LET img_info == c.imgs[image_id]
             width == img_info.width
             height == img_info.height
             ann_ids == getAnnIds(c, image_id)
             anns == loadAnns(c, ann_ids)
         IN  detection_loop(anns, 1, height, width, mapping, <<>>)

\* The body of the instance loop for one annotation: the mapping is looked up
\* first, then the mask is decoded and its shape compared.
instance_body(c, ann, height, width, mapping, instances) ==
    LET coco_cat_id == ann.category_id
    IN  IF coco_cat_id \notin DOMAIN mapping THEN Raise("KeyError")
        ELSE LET class_id == mapping[coco_cat_id]
                 mask == annToMask(c, ann)
             IN  IF <<mask.h, mask.w>> # <<height, width>>
                 THEN Return(instances)
                 ELSE LET instance_id == ann.id
                      IN  Return(Append(instances,
                                        [instance_id |-> instance_id,
                                         class_id |-> class_id,
                                         mask |-> mask]))

RECURSIVE instance_loop(_, _, _, _, _, _, _)
instance_loop(c, anns, i, height, width, mapping, instances) ==
    IF i > Len(anns) THEN Return(instances)
    ELSE LET r == instance_body(c, anns[i], height, width, mapping, instances)
         IN  IF r.exc # "none" THEN r
             ELSE instance_loop(c, anns, i + 1, height, width, mapping, r.val)

get_instance_gt_for_image(c, image_id, mapping) ==
    IF image_id \notin DOMAIN c.imgs THEN Raise("KeyError")
    ELSE LET img_info == c.imgs[image_id]
             width == img_info.width
             height == img_info.height
             ann_ids == getAnnIds(c, image_id)
             anns == loadAnns(c, ann_ids)
         IN  instance_loop(c, anns, 1, height, width, mapping, <<>>)

\* The containers: categories 18 and 5; image 1 of 1x2 or 2x1 pixels with up
\* to MaxAnns annotations, each of a listed category (5, 18) or of category
\* 99, which the list does not have, a box, and a decoded mask of 1x2, 2x1 or
\* 1x1 pixels.
ArrayOf(rows) ==
    [h |-> Len(rows), w |-> Len(rows[1]),
     px |-> [p \in (0..(Len(rows) - 1)) \X (0..(Len(rows[1]) - 1)) |->
                rows[p[1] + 1][p[2] + 1]]]

CocoCats == <<[id |-> 18], [id |-> 5]>>
ImageDims == {<<1, 2>>, <<2, 1>>}
DecodedMasks == {ArrayOf(<<<<1, 0>>>>), ArrayOf(<<<<1>>, <<1>>>>), ArrayOf(<<<<1>>>>)}
AnnBoxes == {<<0, 0, Scale, Scale>>, <<-Scale, 4, 3 * Scale, 4>>}
AnnFields ==
    [category_id : {5, 18, 99}, bbox : AnnBoxes, segmentation : DecodedMasks]
AnnsOf(image_id, fields) ==
    [i \in DOMAIN fields |->
        [id |-> 100 + i, image_id |-> image_id,
         category_id |-> fields[i].category_id, bbox |-> fields[i].bbox,
         segmentation |-> fields[i].segmentation]]
Containers ==
    {[cats |-> CocoCats,
      imgs |-> [k \in {1} |-> [id |-> 1, height |-> d[1], width |-> d[2]]],
      anns |-> AnnsOf(1, fields)] :
        d \in ImageDims, fields \in SeqsUpTo(AnnFields, MaxAnns)}
RequestedIds == {1, 2}

InitCoco ==
    /\ coco \in Containers
    /\ panoptic_data = NoPanoptic
    /\ masks_dir = EmptyMap
    /\ catid_to_classid = EmptyMap
    /\ img_id_to_img = EmptyMap
    /\ img_id_to_ann = EmptyMap
    /\ pc = "start"
    /\ call = NoCall
    /\ ret = NoRet
    /\ workers = <<>>

\* main(): coco = COCO(ann_file); catid_to_classid = build_category_id_mapping(coco)
\* The detection and the instance script define the same function.
MainBuildCocoMapping ==
    /\ pc = "start"
    /\ coco # NoCoco
    /\ catid_to_classid' = build_category_id_mapping_instance(coco)
    /\ pc' = "mapped"
    /\ UNCHANGED <<coco, panoptic_data, masks_dir, img_id_to_img,
                   img_id_to_ann, call, ret, workers>>

\* get_detection_gt_for_image(coco, image_id, catid_to_classid), whole call.
RunGetDetectionGt ==
    /\ pc = "mapped"
    /\ coco # NoCoco
    /\ \E image_id \in RequestedIds :
          /\ call' = [fn |-> "get_detection_gt_for_image", image_id |-> image_id]
          /\ ret' = get_detection_gt_for_image(coco, image_id, catid_to_classid)
    /\ pc' = "done"
    /\ UNCHANGED <<coco, panoptic_data, masks_dir, catid_to_classid,
                   img_id_to_img, img_id_to_ann, workers>>

\* get_instance_gt_for_image(coco, image_id, catid_to_classid), whole call.
RunGetInstanceGt ==
    /\ pc = "mapped"
    /\ coco # NoCoco
    /\ \E image_id \in RequestedIds :
          /\ call' = [fn |-> "get_instance_gt_for_image", image_id |-> image_id]
          /\ ret' = get_instance_gt_for_image(coco, image_id, catid_to_classid)
    /\ pc' = "done"
    /\ UNCHANGED <<coco, panoptic_data, masks_dir, catid_to_classid,
                   img_id_to_img, img_id_to_ann, workers>>

NextCoco ==
    \/ MainBuildCocoMapping
    \/ RunGetDetectionGt
    \/ RunGetInstanceGt

SpecCoco == InitCoco /\ [][NextCoco]_vars

-----------------------------------------------------------------------------
(* C5, C9 *)

InstanceCallDone ==
    /\ pc = "done"
    /\ call.fn = "get_instance_gt_for_image"
    /\ call.image_id \in DOMAIN coco.imgs

ImageAnns(image_id) == SelectSeq(coco.anns, LAMBDA a : a.image_id = image_id)

ShapeMatches(a, image_id) ==
    /\ a.segmentation.h = coco.imgs[image_id].height
    /\ a.segmentation.w = coco.imgs[image_id].width

MatchingAnns(image_id) ==
    SelectSeq(ImageAnns(image_id), LAMBDA a : ShapeMatches(a, image_id))

\* The claim gives a record the class mapping[category_id]: it speaks of
\* annotations whose kept records have a class.
KeptHaveClass(image_id) ==
    \A i \in DOMAIN MatchingAnns(image_id) :
        MatchingAnns(image_id)[i].category_id \in DOMAIN catid_to_classid

ExpectedInstances(image_id) ==
    [i \in DOMAIN MatchingAnns(image_id) |->
        [instance_id |-> MatchingAnns(image_id)[i].id,
         class_id |-> catid_to_classid[MatchingAnns(image_id)[i].category_id],
         mask |-> MatchingAnns(image_id)[i].segmentation]]

\* C5: the call returns, in order, one record for each annotation whose decoded
\* mask has the image's shape and none for the others, each record with the
\* annotation's id, the class of its category and the decoded mask unchanged.
C5_OutputIsMatchingSubsequence ==
    (InstanceCallDone /\ KeptHaveClass(call.image_id)) =>
        /\ ret.exc = "none"
        /\ ret.val = ExpectedInstances(call.image_id)

\* C9: a call whose image has an annotation of mismatching shape completes
\* normally and returns the records of the remaining annotations, whatever
\* the category_id of the mismatching annotation.
C9_MismatchNeverFatal ==
    (/\ InstanceCallDone
     /\ KeptHaveClass(call.image_id)
     /\ \E i \in DOMAIN ImageAnns(call.image_id) :
           ~ShapeMatches(ImageAnns(call.image_id)[i], call.image_id)) =>
        /\ ret.exc = "none"
        /\ Len(ret.val) = Len(MatchingAnns(call.image_id))

-----------------------------------------------------------------------------
(* index_panoptic_structures, get_panoptic_gt_for_image *)

\* {rec[key]: rec for rec in records}: a later record of the same key
\* replaces the earlier one.
DictBy(records, key) ==
    [k \in {records[i][key] : i \in DOMAIN records} |->
        records[CHOOSE i \in DOMAIN records :
                   /\ records[i][key] = k
                   /\ \A j \in DOMAIN records : records[j][key] = k => j <= i]]

index_panoptic_structures(pd) ==
    [img_id_to_img |-> DictBy(pd.images, "id"),
     img_id_to_ann |-> DictBy(pd.annotations, "image_id")]

\* A missing file read as an image of no pixels.
open_mask_or_empty(dir, file_name) ==
    IF file_name \notin DOMAIN dir
    THEN Return([h |-> 0, w |-> 0, px |-> [p \in {} |-> <<0, 0, 0>>]])
    ELSE Return(dir[file_name])

\* mask_path = os.path.join(panoptic_masks_dir, file_name); the existence
\* test and its FileNotFoundError; np.array(Image.open(mask_path))
open_mask(dir, file_name) ==
    IF file_name \notin DOMAIN dir THEN Raise("FileNotFoundError")
    ELSE Return(dir[file_name])

mask_of_ids_at_least(seg_id_map, seg_id) ==
    [h |-> seg_id_map.h, w |-> seg_id_map.w,
     px |-> [p \in DOMAIN seg_id_map.px |->
                IF seg_id_map.px[p] >= seg_id THEN 1 ELSE 0]]

\* (seg_id_map == seg_id).astype(np.uint8)
equal_mask(seg_id_map, seg_id) ==
    [h |-> seg_id_map.h, w |-> seg_id_map.w,
     px |-> [p \in DOMAIN seg_id_map.px |->
                IF seg_id_map.px[p] = seg_id THEN 1 ELSE 0]]

\* The body of the panoptic loop for one segment.
panoptic_body(seg, seg_id_map, mapping, panoptic_instances) ==
    LET seg_id == seg.id
        cat_id == seg.category_id
    IN  IF cat_id \notin DOMAIN mapping THEN Raise("KeyError")
        ELSE LET class_id == mapping[cat_id]
                 mask == equal_mask(seg_id_map, seg_id)
             IN  Return(Append(panoptic_instances,
                               [instance_id |-> seg_id,
                                class_id |-> class_id,
                                mask |-> mask]))

RECURSIVE panoptic_loop(_, _, _, _, _)
panoptic_loop(segments_info, i, seg_id_map, mapping, panoptic_instances) ==
    IF i > Len(segments_info) THEN Return(panoptic_instances)
    ELSE LET r == panoptic_body(segments_info[i], seg_id_map, mapping,
                                panoptic_instances)
         IN  IF r.exc # "none" THEN r
             ELSE panoptic_loop(segments_info, i + 1, seg_id_map, mapping, r.val)

\* Returns (panoptic_instances, (H, W)), or raises.
get_panoptic_gt_for_image(img_id, id_to_img, id_to_ann, mapping, dir) ==
    IF img_id \notin DOMAIN id_to_img THEN Raise("KeyError")
    ELSE IF img_id \notin DOMAIN id_to_ann THEN Raise("KeyError")
    ELSE LET img_info == id_to_img[img_id]
             ann == id_to_ann[img_id]
             file_name == ann.file_name
             opened == open_mask(dir, file_name)
         IN  IF opened.exc # "none" THEN opened
             ELSE LET panoptic_rgb == opened.val
                      seg_id_map == rgb_to_id(panoptic_rgb)
                      H == seg_id_map.h
                      W == seg_id_map.w
                      r == panoptic_loop(ann.segments_info, 1, seg_id_map,
                                         mapping, <<>>)
                  IN  IF r.exc # "none" THEN r
                      ELSE Return([instances |-> r.val, shape |-> <<H, W>>])

\* The panoptic inputs.  Image 2 is always whole: listed, annotated, its file
\* present.  Image 1 may miss from the image list, from the annotation list
\* or from the directory; its segment list has up to MaxSegs segments with
\* ids 1000 or 2000 and a category in or out of the list; its file has 1x2 or
\* 2x1 pixels coloured as id 0 (no segment), 1000 or 2000.  Image 42 is the
\* 4x4 scenario.
PanCats == <<[id |-> 18], [id |-> 5]>>
Rgb0 == <<0, 0, 0>>
Rgb1000 == <<232, 3, 0>>
Rgb2000 == <<208, 7, 0>>
PngPixels == {Rgb0, Rgb1000, Rgb2000}
PngFiles == UNION {ArraysOf(shape, PngPixels) : shape \in ImageDims}
SegFields == [id : {1000, 2000}, category_id : {5, 18, 99}]
Image2 == [id |-> 2, height |-> 1, width |-> 2]
Ann2 == [image_id |-> 2, file_name |-> "2.png",
         segments_info |-> <<[id |-> 1000, category_id |-> 5]>>]
Png2 == ArrayOf(<<<<Rgb1000, Rgb0>>>>)
ImageLists ==
    {<<Image2>>} \cup
    {<<[id |-> 1, height |-> d[1], width |-> d[2]], Image2>> : d \in ImageDims}
AnnotationLists ==
    {<<Ann2>>} \cup
    {<<[image_id |-> 1, file_name |-> "1.png", segments_info |-> segs], Ann2>> :
        segs \in SeqsUpTo(SegFields, MaxSegs)}
Directories ==
    {[f \in {"2.png"} |-> Png2]} \cup
    {[f \in {"1.png", "2.png"} |-> IF f = "1.png" THEN png ELSE Png2] :
        png \in PngFiles}

ScenarioData ==
    [categories |-> PanCats,
     images |-> <<[id |-> 42, height |-> 4, width |-> 4]>>,
     annotations |-> <<[image_id |-> 42, file_name |-> "42.png",
                        segments_info |-> <<[id |-> 1000, category_id |-> 5],
                                            [id |-> 2000, category_id |-> 18]>>]>>]
ScenarioDir ==
    [f \in {"42.png"} |->
        [h |-> 4, w |-> 4,
         px |-> [p \in (0..3) \X (0..3) |-> IF p[1] < 2 THEN Rgb1000 ELSE Rgb2000]]]

PanRequestedIds == {1, 2, 3, 42}

InitPan ==
    /\ coco = NoCoco
    /\ \/ /\ \E imgs \in ImageLists, anns \in AnnotationLists :
                panoptic_data = [categories |-> PanCats, images |-> imgs,
                                 annotations |-> anns]
          /\ masks_dir \in Directories
       \/ /\ panoptic_data = ScenarioData
          /\ masks_dir = ScenarioDir
    /\ catid_to_classid = EmptyMap
    /\ img_id_to_img = EmptyMap
    /\ img_id_to_ann = EmptyMap
    /\ pc = "start"
    /\ call = NoCall
    /\ ret = NoRet
    /\ workers = <<>>

\* main(): catid_to_classid = build_category_id_mapping(panoptic_data);
\* img_id_to_img, img_id_to_ann = index_panoptic_structures(panoptic_data)
MainBuildPanoptic ==
    /\ pc = "start"
    /\ panoptic_data # NoPanoptic
    /\ catid_to_classid' = build_category_id_mapping_panoptic(panoptic_data)
    /\ img_id_to_img' = index_panoptic_structures(panoptic_data).img_id_to_img
    /\ img_id_to_ann' = index_panoptic_structures(panoptic_data).img_id_to_ann
    /\ pc' = "mapped"
    /\ UNCHANGED <<coco, panoptic_data, masks_dir, call, ret, workers>>

\* get_panoptic_gt_for_image(img_id, img_id_to_img, img_id_to_ann,
\* catid_to_classid, panoptic_masks_dir), whole call; a caller may call again
\* after a call returned or raised.
RunGetPanopticGt ==
    /\ pc \in {"mapped", "done"}
    /\ panoptic_data # NoPanoptic
    /\ \E img_id \in PanRequestedIds :
          /\ call' = [fn |-> "get_panoptic_gt_for_image", image_id |-> img_id]
          /\ ret' = get_panoptic_gt_for_image(img_id, img_id_to_img,
                                              img_id_to_ann, catid_to_classid,
                                              masks_dir)
    /\ pc' = "done"
    /\ UNCHANGED <<coco, panoptic_data, masks_dir, catid_to_classid,
                   img_id_to_img, img_id_to_ann, workers>>

NextPan ==
    \/ MainBuildPanoptic
    \/ RunGetPanopticGt

SpecPan == InitPan /\ [][NextPan]_vars

\* The three builders, each on its own container.
Init == InitCoco \/ InitPan

Next == NextCoco \/ NextPan

Spec == Init /\ [][Next]_vars

-----------------------------------------------------------------------------
(* C6, C7, C8 *)

ShapeOf(a) == <<a.h, a.w>>

Declared(img_info) == <<img_info.height, img_info.width>>

\* C6: every record a call of one of the three builders returns has a mask of
\* the height and width the image's metadata record declares.
C6_MaskShapeIsDeclaredShape ==
    (pc = "done" /\ ret.exc = "none") =>
        /\ call.fn \in {"get_detection_gt_for_image", "get_instance_gt_for_image"} =>
              \A i \in DOMAIN ret.val :
                  ShapeOf(ret.val[i].mask) = Declared(coco.imgs[call.image_id])
        /\ call.fn = "get_panoptic_gt_for_image" =>
              \A i \in DOMAIN ret.val.instances :
                  ShapeOf(ret.val.instances[i].mask)
                      = Declared(img_id_to_img[call.image_id])

PanopticCallDone ==
    /\ pc = "done"
    /\ call.fn = "get_panoptic_gt_for_image"

\* The image is in both indexes, its file is there and its segments'
\* categories have a class: the call has records to return.
PanopticCallServed ==
    /\ PanopticCallDone
    /\ call.image_id \in DOMAIN img_id_to_img
    /\ call.image_id \in DOMAIN img_id_to_ann
    /\ img_id_to_ann[call.image_id].file_name \in DOMAIN masks_dir
    /\ \A i \in DOMAIN img_id_to_ann[call.image_id].segments_info :
          img_id_to_ann[call.image_id].segments_info[i].category_id
              \in DOMAIN catid_to_classid

SegmentsOf(image_id) == img_id_to_ann[image_id].segments_info
PngOf(image_id) == masks_dir[img_id_to_ann[image_id].file_name]
DecodedId(rgb) == rgb[1] + 256 * rgb[2] + 65536 * rgb[3]

\* One record per segment, in list order: the segment's id, the class of its
\* category, and the mask of the pixels whose decoded id is the segment's id.
RecordsFollowSegments ==
    LET segs == SegmentsOf(call.image_id)
        png == PngOf(call.image_id)
        recs == ret.val.instances
    IN  /\ ret.exc = "none"
        /\ Len(recs) = Len(segs)
        /\ \A i \in DOMAIN segs :
              /\ recs[i].instance_id = segs[i].id
              /\ recs[i].class_id = catid_to_classid[segs[i].category_id]
              /\ DOMAIN recs[i].mask.px = DOMAIN png.px
              /\ \A p \in DOMAIN png.px :
                    recs[i].mask.px[p] =
                        IF DecodedId(png.px[p]) = segs[i].id THEN 1 ELSE 0

InstanceIdsDistinct ==
    \A i, j \in DOMAIN ret.val.instances :
        ret.val.instances[i].instance_id = ret.val.instances[j].instance_id
            => i = j

MasksExclusive ==
    \A i, j \in DOMAIN ret.val.instances :
        i # j => Ones(ret.val.instances[i].mask)
                    \cap Ones(ret.val.instances[j].mask) = {}

Covered == UNION {Ones(ret.val.instances[i].mask) : i \in DOMAIN ret.val.instances}

\* C7 as stated: one record per segment as above, and so the instance ids are
\* pairwise distinct, the masks mutually exclusive, and the masks together
\* cover all pixels of the image.
C7_RecordsPartitionImage ==
    PanopticCallServed =>
        /\ RecordsFollowSegments
        /\ InstanceIdsDistinct
        /\ MasksExclusive
        /\ Covered = DOMAIN PngOf(call.image_id).px

\* C7 as amended: one record per segment as above; when the segment list's ids
\* are pairwise distinct, so are the instance ids and the masks are mutually
\* exclusive; the masks together cover exactly the pixels whose decoded id is
\* in the segment list; in the 4x4 scenario that is two disjoint 8-pixel masks
\* covering all 16 pixels.
C7_RecordsFollowSegmentList ==
    PanopticCallServed =>
        LET segs == SegmentsOf(call.image_id)
            png == PngOf(call.image_id)
        IN  /\ RecordsFollowSegments
            /\ (\A i, j \in DOMAIN segs : segs[i].id = segs[j].id => i = j) =>
                  (InstanceIdsDistinct /\ MasksExclusive)
            /\ Covered = {p \in DOMAIN png.px :
                            \E i \in DOMAIN segs : DecodedId(png.px[p]) = segs[i].id}
            /\ call.image_id = 42 =>
                  /\ Len(ret.val.instances) = 2
                  /\ ret.val.instances[1].instance_id = 1000
                  /\ ret.val.instances[2].instance_id = 2000
                  /\ Ones(ret.val.instances[1].mask) = (0..1) \X (0..3)
                  /\ Ones(ret.val.instances[2].mask) = (2..3) \X (0..3)
                  /\ MasksExclusive
                  /\ Cardinality(Covered) = 16

\* Image 1 with segments 1000 and 2000 on a file one of whose pixels belongs
\* to no segment: two records, and the masks leave that pixel out.
C7_Witness ==
    /\ PanopticCallServed
    /\ call.image_id = 1
    /\ Len(ret.val.instances) = 2
    /\ ret.val.instances[1].instance_id = 1000
    /\ ret.val.instances[2].instance_id = 2000
    /\ Cardinality(Ones(ret.val.instances[1].mask)) = 1
    /\ Cardinality(Covered) < Cardinality(DOMAIN PngOf(1).px)

\* C8: a call for an image id absent from either index, or whose file is not
\* there, raises (KeyError, FileNotFoundError) and hands back no record list;
\* the mapping and the indexes are still the ones built from the container,
\* the container and the directory are as loaded, and every call, also one
\* made after a failed call, gives what a first call on freshly built indexes
\* gives.
C8_LookupAndFileErrorsPropagate ==
    PanopticCallDone =>
        LET fresh == index_panoptic_structures(panoptic_data)
        IN  /\ (\/ call.image_id \notin DOMAIN fresh.img_id_to_img
                \/ call.image_id \notin DOMAIN fresh.img_id_to_ann) =>
                  ret = [exc |-> "KeyError", val |-> <<>>]
            /\ (/\ call.image_id \in DOMAIN fresh.img_id_to_img
                /\ call.image_id \in DOMAIN fresh.img_id_to_ann
                /\ fresh.img_id_to_ann[call.image_id].file_name
                      \notin DOMAIN masks_dir) =>
                  ret = [exc |-> "FileNotFoundError", val |-> <<>>]
            /\ img_id_to_img = fresh.img_id_to_img
            /\ img_id_to_ann = fresh.img_id_to_ann
            /\ catid_to_classid = build_category_id_mapping_panoptic(panoptic_data)
            /\ ret = get_panoptic_gt_for_image(
                        call.image_id, fresh.img_id_to_img, fresh.img_id_to_ann,
                        build_category_id_mapping_panoptic(panoptic_data),
                        masks_dir)

\* Image 1 is listed and annotated with two segments, but its file is missing.
C8_Witness ==
    /\ PanopticCallDone
    /\ call.image_id = 1
    /\ 1 \in DOMAIN img_id_to_img
    /\ 1 \in DOMAIN img_id_to_ann
    /\ Len(img_id_to_ann[1].segments_info) = 2
    /\ "1.png" \notin DOMAIN masks_dir
    /\ ret.exc = "FileNotFoundError"
    /\ ret.val = <<>>

-----------------------------------------------------------------------------
(* Per-image calls run side by side by workers that share the container, the
   mapping and the indexes.  A call is cut at its reads of shared state: the
   lookups before the loop, each turn of the loop, the return. *)

Workers == 1..MaxWorkers

NoArray == [h |-> 0, w |-> 0, px |-> [p \in {} |-> 0]]

IdleWorker ==
    [at |-> "idle", kind |-> "none", image_id |-> 0, i |-> 0, items |-> <<>>,
     height |-> 0, width |-> 0, seg_id_map |-> NoArray, acc |-> <<>>,
     ret |-> NoRet]

\* One list for all calls.
acc_owner_shared(w) == 1

\* detections = [] / instances = [] / panoptic_instances = []: the list is
\* a local of the call, so worker w's list is its own.
acc_owner(w) == w

\* The container and the panoptic data the workers share: images 1 and 2, with
\* a kept and a dropped annotation, an annotation of an unlisted category, and
\* a file with a pixel of no segment.
ParCoco ==
    [cats |-> CocoCats,
     imgs |-> [k \in {1, 2} |-> [id |-> k, height |-> 1, width |-> 2]],
     anns |-> <<[id |-> 101, image_id |-> 1, category_id |-> 5,
                 bbox |-> <<0, 0, Scale, Scale>>,
                 segmentation |-> ArrayOf(<<<<1, 0>>>>)],
                [id |-> 102, image_id |-> 2, category_id |-> 18,
                 bbox |-> <<-Scale, 4, 3 * Scale, 4>>,
                 segmentation |-> ArrayOf(<<<<1, 1>>>>)],
                [id |-> 103, image_id |-> 1, category_id |-> 18,
                 bbox |-> <<Scale, 0, Scale, Scale>>,
                 segmentation |-> ArrayOf(<<<<1>>, <<1>>>>)],
                [id |-> 104, image_id |-> 2, category_id |-> 99,
                 bbox |-> <<0, 0, Scale, Scale>>,
                 segmentation |-> ArrayOf(<<<<0, 1>>>>)]>>]
ParPanoptic ==
    [categories |-> PanCats,
     images |-> <<[id |-> 1, height |-> 1, width |-> 2], Image2>>,
     annotations |-> <<[image_id |-> 1, file_name |-> "1.png",
                        segments_info |-> <<[id |-> 1000, category_id |-> 5],
                                            [id |-> 2000, category_id |-> 18]>>],
                       Ann2>>]
ParDir ==
    [f \in {"1.png", "2.png"} |->
        IF f = "1.png" THEN ArrayOf(<<<<Rgb2000, Rgb1000>>>>) ELSE Png2]
ParKinds == {"detection", "instance", "panoptic"}
ParRequestedIds == {1, 2, 3}

InitPar ==
    /\ coco = ParCoco
    /\ panoptic_data = ParPanoptic
    /\ masks_dir = ParDir
    /\ catid_to_classid = EmptyMap
    /\ img_id_to_img = EmptyMap
    /\ img_id_to_ann = EmptyMap
    /\ pc = "start"
    /\ call = NoCall
    /\ ret = NoRet
    /\ workers = [w \in Workers |-> IdleWorker]

\* The mapping and the indexes are built once, before the workers start.  The
\* container and the panoptic data list the same categories, so the three
\* build_category_id_mapping give this one mapping.
ParBuild ==
    /\ pc = "start"
    /\ catid_to_classid' = build_category_id_mapping_panoptic(panoptic_data)
    /\ img_id_to_img' = index_panoptic_structures(panoptic_data).img_id_to_img
    /\ img_id_to_ann' = index_panoptic_structures(panoptic_data).img_id_to_ann
    /\ pc' = "mapped"
    /\ UNCHANGED <<coco, panoptic_data, masks_dir, call, ret, workers>>

\* The call's statements before its loop, for a detection or instance call:
\* loadImgs, width, height, getAnnIds, loadAnns, and the empty list.
coco_call_start(kind, image_id) ==
    IF image_id \notin DOMAIN coco.imgs
    THEN [IdleWorker EXCEPT !.at = "done", !.kind = kind,
                            !.image_id = image_id, !.ret = Raise("KeyError")]
    ELSE [IdleWorker EXCEPT !.at = "loop", !.kind = kind,
                            !.image_id = image_id, !.i = 1,
                            !.items = loadAnns(coco, getAnnIds(coco, image_id)),
                            !.height = coco.imgs[image_id].height,
                            !.width = coco.imgs[image_id].width]

\* The same for a panoptic call: the two index lookups, the file, rgb_to_id.
panoptic_call_start(img_id) ==
    LET failed(e) == [IdleWorker EXCEPT !.at = "done", !.kind = "panoptic",
                                        !.image_id = img_id, !.ret = Raise(e)]
    IN  IF img_id \notin DOMAIN img_id_to_img THEN failed("KeyError")
        ELSE IF img_id \notin DOMAIN img_id_to_ann THEN failed("KeyError")
        ELSE LET opened == open_mask(masks_dir, img_id_to_ann[img_id].file_name)
             IN  IF opened.exc # "none" THEN failed(opened.exc)
                 ELSE [IdleWorker EXCEPT
                          !.at = "loop", !.kind = "panoptic",
                          !.image_id = img_id, !.i = 1,
                          !.items = img_id_to_ann[img_id].segments_info,
                          !.seg_id_map = rgb_to_id(opened.val)]

WorkerStart(w) ==
    /\ pc = "mapped"
    /\ workers[w].at = "idle"
    /\ \E kind \in ParKinds, image_id \in ParRequestedIds :
          LET started == IF kind = "panoptic" THEN panoptic_call_start(image_id)
                         ELSE coco_call_start(kind, image_id)
          IN  workers' = [[workers EXCEPT ![w] = started]
                             EXCEPT ![acc_owner(w)].acc = <<>>]
    /\ UNCHANGED <<coco, panoptic_data, masks_dir, catid_to_classid,
                   img_id_to_img, img_id_to_ann, pc, call, ret>>

\* One turn of the call's loop.
WorkerTurn(w) ==
    /\ workers[w].at = "loop"
    /\ workers[w].i <= Len(workers[w].items)
    /\ LET me == workers[w]
           item == me.items[me.i]
           acc == workers[acc_owner(w)].acc
           r == IF me.kind = "detection"
                THEN detection_body(item, me.height, me.width,
                                    catid_to_classid, acc)
                ELSE IF me.kind = "instance"
                THEN instance_body(coco, item, me.height, me.width,
                                   catid_to_classid, acc)
                ELSE panoptic_body(item, me.seg_id_map, catid_to_classid, acc)
       IN  IF r.exc # "none"
           THEN workers' = [workers EXCEPT ![w].at = "done", ![w].ret = r]
           ELSE workers' = [[workers EXCEPT ![w].i = me.i + 1]
                               EXCEPT ![acc_owner(w)].acc = r.val]
    /\ UNCHANGED <<coco, panoptic_data, masks_dir, catid_to_classid,
                   img_id_to_img, img_id_to_ann, pc, call, ret>>

\* The call's return statement.
WorkerReturn(w) ==
    /\ workers[w].at = "loop"
    /\ workers[w].i > Len(workers[w].items)
    /\ LET me == workers[w]
           acc == workers[acc_owner(w)].acc
       IN  workers' = [workers EXCEPT
              ![w].at = "done",
              ![w].ret = IF me.kind = "panoptic"
                         THEN Return([instances |-> acc,
                                      shape |-> <<me.seg_id_map.h,
                                                  me.seg_id_map.w>>])
                         ELSE Return(acc)]
    /\ UNCHANGED <<coco, panoptic_data, masks_dir, catid_to_classid,
                   img_id_to_img, img_id_to_ann, pc, call, ret>>

NextPar ==
    \/ ParBuild
    \/ \E w \in Workers : WorkerStart(w)
    \/ \E w \in Workers : WorkerTurn(w)
    \/ \E w \in Workers : WorkerReturn(w)

SpecPar == InitPar /\ [][NextPar]_vars

-----------------------------------------------------------------------------
(* C10 *)

\* What the call returns when it is the only one running.
AloneResult(kind, image_id) ==
    IF kind = "detection"
    THEN get_detection_gt_for_image(ParCoco, image_id,
                                    build_category_id_mapping_detection(ParCoco))
    ELSE IF kind = "instance"
    THEN get_instance_gt_for_image(ParCoco, image_id,
                                   build_category_id_mapping_instance(ParCoco))
    ELSE get_panoptic_gt_for_image(
            image_id,
            index_panoptic_structures(ParPanoptic).img_id_to_img,
            index_panoptic_structures(ParPanoptic).img_id_to_ann,
            build_category_id_mapping_panoptic(ParPanoptic),
            ParDir)

\* C10: whatever the interleaving, the container, the panoptic data, the
\* directory, the mapping and the indexes stay as loaded and built, and a
\* finished call has returned (or raised) what it returns when run alone.
C10_CallsDoNotInterfere ==
    /\ coco = ParCoco
    /\ panoptic_data = ParPanoptic
    /\ masks_dir = ParDir
    /\ pc = "mapped" =>
          /\ catid_to_classid = build_category_id_mapping_panoptic(ParPanoptic)
          /\ img_id_to_img = index_panoptic_structures(ParPanoptic).img_id_to_img
          /\ img_id_to_ann = index_panoptic_structures(ParPanoptic).img_id_to_ann
    /\ \A w \in Workers :
          workers[w].at = "done" =>
              workers[w].ret = AloneResult(workers[w].kind, workers[w].image_id)

\* An instance call and a panoptic call, both for image 1, have finished with
\* their records while they ran side by side.
C10_Witness ==
    /\ workers[1].at = "done"
    /\ workers[2].at = "done"
    /\ workers[1].kind = "instance"
    /\ workers[2].kind = "panoptic"
    /\ workers[1].image_id = 1
    /\ workers[2].image_id = 1
    /\ Len(workers[1].ret.val) = 1
    /\ Len(workers[2].ret.val.instances) = 2

====
